---- MODULE Spec2Model ----
(***************************************************************************)
(* Model of the resilient external-call layer of backend1:                 *)
(*   routes/role_predictor.py  predict_role, _call_hf_api,                 *)
(*                             _map_label_to_roles                         *)
(*   routes/analyze_all.py     analyze_all                                 *)
(* One request is handled per behaviour; endpoint says which handler.      *)
(* Strings the code inspects (strip, lower, substring) are sequences of    *)
(* one-character strings.  Scores are hundredths (0.9 is 90).              *)
(***************************************************************************)
EXTENDS Integers, Sequences, FiniteSets, TLC

\* ---------------------------------------------------------------- strings

UpperChars == <<"A", "B", "C", "D", "E", "F", "G", "H", "I", "J", "K", "L", "M", "N", "O", "P", "Q", "R", "S", "T", "U", "V", "W", "X", "Y", "Z">>
LowerChars == <<"a", "b", "c", "d", "e", "f", "g", "h", "i", "j", "k", "l", "m", "n", "o", "p", "q", "r", "s", "t", "u", "v", "w", "x", "y", "z">>

\* the characters str.lower() changes
UpperSet == {UpperChars[i] : i \in DOMAIN UpperChars}

\* str.lower() on one character
LowerChar(c) ==
  IF c \in UpperSet
  THEN LowerChars[CHOOSE i \in 1..Len(UpperChars) : UpperChars[i] = c]
  ELSE c

\* str.lower()
Lower(s) == SubSeq([i \in 1..Len(s) |-> LowerChar(s[i])], 1, Len(s))

\* the characters str.strip() removes
IsSpace(c) == c \in {" ", "\t", "\n", "\r"}

\* str.strip(): drop leading and trailing whitespace
Strip(s) ==
  LET keep == {i \in 1..Len(s) : ~IsSpace(s[i])}
  IN IF keep = {} THEN <<>>
     ELSE LET lo == CHOOSE i \in keep : \A j \in keep : i <= j
              hi == CHOOSE i \in keep : \A j \in keep : j <= i
          IN SubSeq(s, lo, hi)

\* Python's `kw in s` on strings
Contains(s, kw) ==
  \/ kw = <<>>
  \/ \E i \in 1..(Len(s) - Len(kw) + 1) :
       s[i] = kw[1] /\ SubSeq(s, i, i + Len(kw) - 1) = kw

\* a truncation that keeps the whole text
Prefix_Whole(s, n) == s

\* text[:n]
Prefix(s, n) == IF Len(s) > n THEN SubSeq(s, 1, n) ELSE s

Str_Fresher == <<"F", "r", "e", "s", "h", "e", "r">>
Str_Intern == <<"I", "n", "t", "e", "r", "n">>
Str_unknown == <<"u", "n", "k", "n", "o", "w", "n">>
Str_technology == <<"t", "e", "c", "h", "n", "o", "l", "o", "g", "y">>

\* ROLE_MAP, in the order of the dict literal
ROLE_MAP ==
  << [key |-> <<"t", "e", "c", "h", "n", "o", "l", "o", "g", "y">>,
      roles |-> <<<<"S", "o", "f", "t", "w", "a", "r", "e", " ", "E", "n", "g", "i", "n", "e", "e", "r", " ", "-", " ", "F", "r", "e", "s", "h", "e", "r">>,
                 <<"F", "u", "l", "l", " ", "S", "t", "a", "c", "k", " ", "D", "e", "v", "e", "l", "o", "p", "e", "r", " ", "-", " ", "F", "r", "e", "s", "h", "e", "r">>>>],
     [key |-> <<"p", "r", "o", "g", "r", "a", "m", "m", "i", "n", "g">>,
      roles |-> <<<<"B", "a", "c", "k", "e", "n", "d", " ", "D", "e", "v", "e", "l", "o", "p", "e", "r", " ", "-", " ", "F", "r", "e", "s", "h", "e", "r">>>>],
     [key |-> <<"c", "r", "e", "a", "t", "i", "v", "i", "t", "y">>,
      roles |-> <<<<"U", "I", "/", "U", "X", " ", "D", "e", "s", "i", "g", "n", "e", "r", " ", "-", " ", "F", "r", "e", "s", "h", "e", "r">>>>],
     [key |-> <<"a", "n", "a", "l", "y", "s", "i", "s">>,
      roles |-> <<<<"D", "a", "t", "a", " ", "A", "n", "a", "l", "y", "s", "t", " ", "-", " ", "F", "r", "e", "s", "h", "e", "r">>>>],
     [key |-> <<"l", "e", "a", "r", "n", "i", "n", "g">>,
      roles |-> <<<<"M", "a", "c", "h", "i", "n", "e", " ", "L", "e", "a", "r", "n", "i", "n", "g", " ", "I", "n", "t", "e", "r", "n">>>>],
     [key |-> <<"o", "r", "g", "a", "n", "i", "z", "a", "t", "i", "o", "n">>,
      roles |-> <<<<"B", "u", "s", "i", "n", "e", "s", "s", " ", "A", "n", "a", "l", "y", "s", "t", " ", "-", " ", "F", "r", "e", "s", "h", "e", "r">>>>],
     [key |-> <<"r", "e", "s", "p", "o", "n", "s", "i", "b", "i", "l", "i", "t", "y">>,
      roles |-> <<<<"C", "y", "b", "e", "r", "s", "e", "c", "u", "r", "i", "t", "y", " ", "A", "n", "a", "l", "y", "s", "t", " ", "-", " ", "F", "r", "e", "s", "h", "e", "r">>>>] >>

\* ------------------------------------------------- role_predictor.py data
\* a loop that runs one attempt too many
MaxRetries_OneMore == 2 + 1

MaxRetries == 2
TruncateAt == 2000
HeuristicScore == 50

\* JSON values of a response body, tagged by their Python type
JNum(n) == [t |-> "num", v |-> n]
JStr(s) == [t |-> "str", v |-> s]
JNull == [t |-> "null"]
JList(items) == [t |-> "list", items |-> items]
JDict == [t |-> "dict"]
JRec(l, s) == [t |-> "dict", label |-> JStr(l), score |-> JNum(s)]

\* p.get(k, default) on a dict
Get(p, k, default) == IF k \in DOMAIN p THEN p[k] ELSE default

\* str(x) and float(x) of a JSON value
PyStr(x) ==
  CASE x.t = "str" -> x.v
    [] x.t = "null" -> <<"N", "o", "n", "e">>
    [] OTHER -> <<"?">>

HeuristicGroups ==
  << [label |-> <<"t", "e", "c", "h", "n", "o", "l", "o", "g", "y">>,
      kws |-> <<<<"r", "e", "a", "c", "t">>,
               <<"a", "n", "g", "u", "l", "a", "r">>,
               <<"v", "u", "e">>,
               <<"f", "r", "o", "n", "t", "e", "n", "d">>>>],
     [label |-> <<"p", "r", "o", "g", "r", "a", "m", "m", "i", "n", "g">>,
      kws |-> <<<<"p", "y", "t", "h", "o", "n">>,
               <<"j", "a", "v", "a">>,
               <<"n", "o", "d", "e">>,
               <<"b", "a", "c", "k", "e", "n", "d">>,
               <<"a", "p", "i">>>>],
     [label |-> <<"c", "r", "e", "a", "t", "i", "v", "i", "t", "y">>,
      kws |-> <<<<"u", "i">>,
               <<"u", "x">>,
               <<"f", "i", "g", "m", "a">>,
               <<"d", "e", "s", "i", "g", "n">>>>],
     [label |-> <<"a", "n", "a", "l", "y", "s", "i", "s">>,
      kws |-> <<<<"d", "a", "t", "a">>,
               <<"a", "n", "a", "l", "y", "s", "i", "s">>,
               <<"e", "x", "c", "e", "l">>,
               <<"p", "o", "w", "e", "r", " ", "b", "i">>,
               <<"s", "q", "l">>>>],
     [label |-> <<"l", "e", "a", "r", "n", "i", "n", "g">>,
      kws |-> <<<<"m", "l">>,
               <<"m", "a", "c", "h", "i", "n", "e", " ", "l", "e", "a", "r", "n", "i", "n", "g">>,
               <<"d", "e", "e", "p", " ", "l", "e", "a", "r", "n", "i", "n", "g">>,
               <<"t", "e", "n", "s", "o", "r", "f", "l", "o", "w">>,
               <<"p", "y", "t", "o", "r", "c", "h">>>>],
     [label |-> <<"o", "r", "g", "a", "n", "i", "z", "a", "t", "i", "o", "n">>,
      kws |-> <<<<"b", "u", "s", "i", "n", "e", "s", "s">>,
               <<"r", "e", "q", "u", "i", "r", "e", "m", "e", "n", "t", "s">>,
               <<"s", "t", "a", "k", "e", "h", "o", "l", "d", "e", "r">>>>],
     [label |-> <<"r", "e", "s", "p", "o", "n", "s", "i", "b", "i", "l", "i", "t", "y">>,
      kws |-> <<<<"s", "e", "c", "u", "r", "i", "t", "y">>,
               <<"c", "y", "b", "e", "r">>,
               <<"v", "u", "l", "n", "e", "r", "a", "b", "i", "l", "i", "t", "y">>,
               <<"n", "e", "t", "w", "o", "r", "k">>>>] >>

\* a chain in which the last matching group wins
RECURSIVE HeuristicFrom_LastWins(_, _)
HeuristicFrom_LastWins(lowered, g) ==
  LET matches(h) == \E k \in 1..Len(HeuristicGroups[h].kws) :
                      Contains(lowered, HeuristicGroups[h].kws[k])
  IN IF g > Len(HeuristicGroups) THEN Str_technology
     ELSE IF \E h \in (g + 1)..Len(HeuristicGroups) : matches(h)
          THEN HeuristicFrom_LastWins(lowered, g + 1)
          ELSE IF matches(g) THEN HeuristicGroups[g].label ELSE Str_technology

\* the if/elif chain of predict_role: first group with a keyword in the text
RECURSIVE HeuristicFrom(_, _)
HeuristicFrom(lowered, g) ==
  IF g > Len(HeuristicGroups) THEN Str_technology
  ELSE IF \E k \in 1..Len(HeuristicGroups[g].kws) :
            Contains(lowered, HeuristicGroups[g].kws[k])
       THEN HeuristicGroups[g].label
       ELSE HeuristicFrom(lowered, g + 1)

HeuristicLabel(text) == HeuristicFrom(Lower(text), 1)

\* a lookup that lowercases but does not strip
_map_label_to_roles_NoStrip(label) ==
  LET key == Lower(label)
      hit == {i \in 1..Len(ROLE_MAP) : ROLE_MAP[i].key = key}
  IN IF hit = {} THEN <<>> ELSE ROLE_MAP[CHOOSE i \in hit : TRUE].roles

\* ROLE_MAP.get(label.lower().strip(), [])
_map_label_to_roles(label) ==
  LET key == Strip(Lower(label))
      hit == {i \in 1..Len(ROLE_MAP) : ROLE_MAP[i].key = key}
  IN IF hit = {} THEN <<>> ELSE ROLE_MAP[CHOOSE i \in hit : TRUE].roles

\* a filter that keeps Fresher roles only
RECURSIVE FresherFilter_FresherOnly(_)
FresherFilter_FresherOnly(roles) ==
  IF roles = <<>> THEN <<>>
  ELSE LET r == Head(roles)
           rest == FresherFilter_FresherOnly(Tail(roles))
       IN IF Contains(r, Str_Fresher) THEN <<r>> \o rest ELSE rest

\* [r for r in roles if "Fresher" in r or "Intern" in r]
RECURSIVE FresherFilter(_)
FresherFilter(roles) ==
  IF roles = <<>> THEN <<>>
  ELSE LET r == Head(roles)
           rest == FresherFilter(Tail(roles))
       IN IF Contains(r, Str_Fresher) \/ Contains(r, Str_Intern)
          THEN <<r>> \o rest ELSE rest

\* a maximum that keeps the last of equal scores
RECURSIVE MaxWalk_LastMax(_, _, _)
MaxWalk_LastMax(preds, i, best) ==
  IF i > Len(preds) THEN [ok |-> TRUE, top |-> preds[best], err |-> "-"]
  ELSE IF preds[i].t # "dict" THEN [ok |-> FALSE, top |-> JNull, err |-> "AttributeError"]
  ELSE IF i = 1 THEN MaxWalk_LastMax(preds, 2, 1)
  ELSE LET k == Get(preds[i], "score", JNum(0))
           b == Get(preds[best], "score", JNum(0))
       IN IF k.t # "num" \/ b.t # "num"
          THEN [ok |-> FALSE, top |-> JNull, err |-> "TypeError"]
          ELSE IF k.v >= b.v THEN MaxWalk_LastMax(preds, i + 1, i)
               ELSE MaxWalk_LastMax(preds, i + 1, best)

\* max(predictions, key=lambda p: p.get("score", 0.0)): walks the list,
\* keeps the first maximum; raises AttributeError on an element without
\* .get and TypeError when two keys cannot be ordered
RECURSIVE MaxWalk(_, _, _)
MaxWalk(preds, i, best) ==
  IF i > Len(preds) THEN [ok |-> TRUE, top |-> preds[best], err |-> "-"]
  ELSE IF preds[i].t # "dict" THEN [ok |-> FALSE, top |-> JNull, err |-> "AttributeError"]
  ELSE IF i = 1 THEN MaxWalk(preds, 2, 1)
  ELSE LET k == Get(preds[i], "score", JNum(0))
           b == Get(preds[best], "score", JNum(0))
       IN IF k.t # "num" \/ b.t # "num"
          THEN [ok |-> FALSE, top |-> JNull, err |-> "TypeError"]
          ELSE IF k.v > b.v THEN MaxWalk(preds, i + 1, i)
               ELSE MaxWalk(preds, i + 1, best)

Raised(type, status) == [kind |-> "raised", type |-> type, status |-> status]
Result(label, roles, score) ==
  [kind |-> "result", predicted_label |-> label,
   recommended_roles |-> roles, confidence |-> score]
NoOutcome == [kind |-> "none"]

\* predict_role from `if predictions:` to the return
SelectOutcome(text, preds) ==
  IF preds # <<>>
  THEN LET m == MaxWalk(preds, 1, 1)
       IN IF ~m.ok THEN Raised(m.err, 500)
          ELSE LET sc == Get(m.top, "score", JNum(0))
                   label == PyStr(Get(m.top, "label", JStr(Str_unknown)))
               IN IF sc.t # "num" THEN Raised("TypeError", 500)
                  ELSE Result(label, FresherFilter(_map_label_to_roles(label)), sc.v)
  ELSE LET label == HeuristicLabel(text)
       IN Result(label, FresherFilter(_map_label_to_roles(label)), HeuristicScore)

\* payload before _call_hf_api is entered
NoPayload == [inputs |-> <<>>]

\* last_error values
NoError == [kind |-> "none", status |-> 0]
HttpError(status) == [kind |-> "HTTPException", status |-> status]
OtherError == [kind |-> "Exception", status |-> 0]

\* one response: raises = the post raised (transport error or timeout);
\* sig = "does not have sufficient permissions" in res.text;
\* body = the parsed JSON, or NotJson when res.json() raises
NotJson == [t |-> "notjson"]
Http(status, sig, body) == [raises |-> FALSE, status |-> status, sig |-> sig, body |-> body]
TransportError == [raises |-> TRUE, status |-> 0, sig |-> FALSE, body |-> NotJson]

\* the signature test dropped: every 403 is re-issued
PermissionDenied_Any403(r) == ~r.raises /\ r.status = 403

PermissionDenied(r) == ~r.raises /\ r.status = 403 /\ r.sig

\* an unexpected shape returned as an empty prediction list instead of
\* being kept as the attempt's error
Classify_MalformedReturnsEmpty(r) ==
  IF r.raises THEN [ret |-> FALSE, preds |-> <<>>, err |-> OtherError]
  ELSE IF r.status = 503 THEN [ret |-> FALSE, preds |-> <<>>, err |-> HttpError(503)]
  ELSE IF r.status >= 400 THEN [ret |-> FALSE, preds |-> <<>>, err |-> HttpError(r.status)]
  ELSE LET data == r.body
       IN IF data.t = "notjson" THEN [ret |-> FALSE, preds |-> <<>>, err |-> OtherError]
          ELSE IF data.t = "list" /\ data.items # <<>> /\ data.items[1].t = "list"
               THEN [ret |-> TRUE, preds |-> data.items[1].items, err |-> NoError]
          ELSE IF data.t = "list"
               THEN [ret |-> TRUE, preds |-> data.items, err |-> NoError]
          ELSE [ret |-> TRUE, preds |-> <<>>, err |-> NoError]

\* lines 74-98: what one response does to the attempt
Classify(r) ==
  IF r.raises THEN [ret |-> FALSE, preds |-> <<>>, err |-> OtherError]
  ELSE IF r.status = 503 THEN [ret |-> FALSE, preds |-> <<>>, err |-> HttpError(503)]
  ELSE IF r.status >= 400 THEN [ret |-> FALSE, preds |-> <<>>, err |-> HttpError(r.status)]
  ELSE LET data == r.body
       IN IF data.t = "notjson" THEN [ret |-> FALSE, preds |-> <<>>, err |-> OtherError]
          ELSE IF data.t = "list" /\ data.items # <<>> /\ data.items[1].t = "list"
               THEN [ret |-> TRUE, preds |-> data.items[1].items, err |-> NoError]
          ELSE IF data.t = "list"
               THEN [ret |-> TRUE, preds |-> data.items, err |-> NoError]
          ELSE [ret |-> FALSE, preds |-> <<>>, err |-> HttpError(500)]

\* ------------------------------------------------------------- inputs
Str_organization == <<"o", "r", "g", "a", "n", "i", "z", "a", "t", "i", "o", "n">>
Str_programming == <<"p", "r", "o", "g", "r", "a", "m", "m", "i", "n", "g">>
Str_joy == <<"j", "o", "y">>

\* an input of more than 2000 characters after strip: blank, "python",
\* filler, " vue", newline; cut at 2000 it loses "vue"
LongInput ==
  <<" ", "p", "y", "t", "h", "o", "n">> \o [i \in 1..(TruncateAt - 7) |-> "x"]
    \o <<" ", "v", "u", "e", "\n">>

\* payload.inputs of the requests explored
Texts ==
  { <<>>,
    LongInput,
    <<" ", "\n">>,
    <<"r", "e", "a", "c", "t">>,
    <<" ", "R", "e", "a", "c", "t", " ", "a", "p", "i", "\n">>,
    <<"j", "a", "v", "a">>,
    <<"b", "u", "i", "l", "d">>,
    <<"g", "o", "l", "f">>,
    <<"s", "q", "l", " ", "m", "l">>,
    <<"m", "l", " ", "b", "u", "s", "i", "n", "e", "s", "s">>,
    <<"s", "t", "a", "k", "e", "h", "o", "l", "d", "e", "r", " ", "c", "y", "b", "e", "r">>,
    <<"n", "e", "t", "w", "o", "r", "k">> }

\* prediction lists the endpoint may answer with
PredLists ==
  { <<JRec(Str_organization, 90), JRec(Str_technology, 10)>>,
    <<JRec(Str_technology, 50), JRec(Str_programming, 50)>>,
    <<>>,
    <<JStr(<<"o", "o", "p", "s">>)>>,
    <<[t |-> "dict", label |-> JStr(Str_joy)]>>,
    <<[t |-> "dict", label |-> JStr(Str_joy), score |-> JNull]>>,
    <<JRec(<<"O", "r", "g", "a", "n", "i", "z", "a", "t", "i", "o", "n", " ">>, 150)>> }

NestedLists ==
  { <<JRec(Str_organization, 90), JRec(Str_technology, 10)>>,
    <<>>,
    <<JStr(<<"o", "o", "p", "s">>)>> }

\* outcomes of one client.post
Responses ==
  { TransportError,
    Http(503, FALSE, NotJson),
    Http(403, TRUE, NotJson),
    Http(403, FALSE, NotJson),
    Http(401, TRUE, NotJson),
    Http(200, FALSE, NotJson),
    Http(200, FALSE, JDict) }
  \cup { Http(200, FALSE, JList(p)) : p \in PredLists }
  \cup { Http(200, FALSE, JList(<<JList(p)>>)) : p \in NestedLists }
  \cup { Http(200, FALSE, JList(<<JList(<<JRec(Str_organization, 90), JRec(Str_technology, 10)>>),
                                  JList(<<JRec(Str_programming, 99)>>)>>)) }

\* ------------------------------------------------------ analyze_all.py data
\* optional query parameters and configuration values: None or a string
PyNone == [t |-> "none"]
PyS(s) == [t |-> "str", v |-> s]

\* an empty string taken for a supplied value
Truthy_NotNone(x) == x.t = "str"

\* Python truthiness of an optional string (`if github:`, `not username`)
Truthy(x) == x.t = "str" /\ x.v # ""

\* the default taking precedence over the request's token
PyOr_DefaultFirst(a, b) == IF Truthy(b) THEN b ELSE a

\* `a or b`
PyOr(a, b) == IF Truthy(a) THEN a ELSE b

\* dicts are functions from keys to values
EmptyDict == [k \in {} |-> 0]
Put(d, key, v) == [k \in DOMAIN d \cup {key} |-> IF k = key THEN v ELSE d[k]]
\* {**a, **b}
Merge(a, b) == [k \in DOMAIN a \cup DOMAIN b |-> IF k \in DOMAIN b THEN b[k] ELSE a[k]]

MsgNoUsername == "Could not parse GitHub username from input"
MsgNoToken == "GitHub token missing. Pass ?token=... or set GITHUB_TOKEN env variable"

\* what a call of an adapter does: returns a value or raises
Returned(v) == [raises |-> FALSE, value |-> v, msg |-> ""]
Throws(m) == [raises |-> TRUE, value |-> PyNone, msg |-> m]

\* the adapters (app.helpers.*, app.routes.leetcode_routes/codechef_routes):
\* each returns a structured result or an error indicator, or raises
ResumeOutcomes ==
  { Returned([skills |-> "python, sql", summary |-> "final year student"]),
    Returned([error |-> "Unsupported file type"]),
    Throws("resume parser crashed") }

UsernameOutcomes ==
  { Returned(PyS("octocat")), Returned(PyNone), Throws("malformed profile url") }

RepoCountOutcomes ==
  { Returned([total_repos |-> 5, contributions |-> 120]),
    Returned([error_graphql |-> "GraphQL request failed"]),
    Throws("connection reset") }

PrMetricsOutcomes ==
  { Returned([total_prs |-> 3, merged_prs |-> 2]),
    Returned([error_pr_api |-> "PR search API rate limited"]),
    Throws("read timed out") }

LeetcodeOutcomes ==
  { Returned([username |-> "lc_user", solved |-> 42]),
    Returned([error |-> "LeetCode user not found"]),
    Throws("leetcode unreachable") }

CodechefOutcomes ==
  { Returned([username |-> "cc_user", rating |-> 1500]),
    Returned([error |-> "CodeChef user not found"]),
    Throws("codechef unreachable") }

\* request parameters explored
GithubInputs == { PyNone, PyS(""), PyS("https://github.com/octocat") }
LeetcodeInputs == { PyNone, PyS(""), PyS("lc_user") }
CodechefInputs == { PyNone, PyS("cc_user") }
TokenInputs == { PyNone, PyS("ghp_request") }
EnvTokens == { PyNone, PyS("ghp_env") }

NoResponse == [status |-> 0, body |-> EmptyDict, exc |-> ""]
\* a handler that returns `body` with `status`
Respond(status, body) == [status |-> status, body |-> body, exc |-> ""]
\* an exception that leaves the handler: the framework answers 500
Unhandled(m) == [status |-> 500, body |-> EmptyDict, exc |-> m]

\* one adapter call: the function, its first argument, what it did
Call(fn, arg, o) == [fn |-> fn, arg |-> arg, out |-> o]

\* the resume error never detected
IsResumeError_Never(v) == FALSE

\* line 31: isinstance(resume_result, dict) and resume_result.get("error")
IsResumeError(v) == "error" \in DOMAIN v /\ v["error"] # ""

\* the repository error never detected
GqlFailed_Never(v) == FALSE

\* line 47: "error_graphql" in gql
GqlFailed(v) == "error_graphql" \in DOMAIN v

\* the pull-request error never detected
PrFailed_Never(v) == FALSE

\* line 51: "error_pr_api" in pr
PrFailed(v) == "error_pr_api" \in DOMAIN v

\* ------------------------------------------------------------------ state
VARIABLES
  endpoint,            \* which handler serves the request
  pc,                  \* position of the handler
  HUGGINGFACE_API_KEY, \* TRUE when the environment sets a non-empty key
  inputs,              \* payload.inputs
  text,                \* predict_role: text after strip and truncation
  payload,             \* _call_hf_api: the JSON body of its posts
  attempt,             \* _call_hf_api: loop variable
  last_error,          \* _call_hf_api: last_error
  reqs,                \* _call_hf_api: the posts issued, in order
  sleeps,              \* _call_hf_api: the attempts followed by asyncio.sleep
  hf_raised,           \* what _call_hf_api raised, NoError when it returned
  predictions,         \* predict_role: predictions
  outcome,             \* predict_role: the response or the exception it ends with
  github, leetcode, codechef, token,  \* analyze_all: query parameters
  GITHUB_TOKEN_ENV,    \* app.config default token
  results,             \* analyze_all: results
  username,            \* analyze_all: username
  token_to_use,        \* analyze_all: token_to_use
  gql,                 \* analyze_all: gql
  calls,               \* analyze_all: adapter calls made, in order
  response             \* analyze_all: what the handler answers

predVars ==
  <<HUGGINGFACE_API_KEY, inputs, text, payload, attempt, last_error, reqs, sleeps,
    hf_raised, predictions, outcome>>
aggVars ==
  <<github, leetcode, codechef, token, GITHUB_TOKEN_ENV, results, username,
    token_to_use, gql, calls, response>>
vars == <<endpoint, pc, predVars, aggVars>>

InitPredict ==
  /\ endpoint = "predict_role"
  /\ pc = "pr_start"
  /\ HUGGINGFACE_API_KEY \in BOOLEAN
  /\ inputs \in Texts
  /\ github = PyNone /\ leetcode = PyNone /\ codechef = PyNone
  /\ token = PyNone /\ GITHUB_TOKEN_ENV = PyNone

InitAnalyze ==
  /\ endpoint = "analyze_all"
  /\ pc = "an_resume"
  /\ HUGGINGFACE_API_KEY = FALSE
  /\ inputs = <<>>
  /\ github \in GithubInputs
  /\ leetcode \in LeetcodeInputs
  /\ codechef \in CodechefInputs
  /\ token \in TokenInputs
  /\ GITHUB_TOKEN_ENV \in EnvTokens

Init ==
  /\ (InitPredict \/ InitAnalyze)
  /\ text = <<>>
  /\ payload = NoPayload
  /\ attempt = 0
  /\ last_error = NoError
  /\ reqs = <<>>
  /\ sleeps = <<>>
  /\ hf_raised = NoError
  /\ predictions = <<>>
  /\ outcome = NoOutcome
  /\ results = EmptyDict
  /\ username = PyNone
  /\ token_to_use = PyNone
  /\ gql = EmptyDict
  /\ calls = <<>>
  /\ response = NoResponse

\* ------------------------------------------------- role_predictor.py steps
\* predict_role, lines 120-128: strip, reject empty, truncate
PredictStart ==
  /\ endpoint = "predict_role" /\ pc = "pr_start"
  /\ LET stripped == Strip(inputs)
     IN IF stripped = <<>>
        THEN /\ outcome' = Raised("HTTPException", 400)
             /\ pc' = "done"
             /\ UNCHANGED <<text, payload>>
        ELSE /\ text' = Prefix(stripped, TruncateAt)
             /\ payload' = [inputs |-> text']
             /\ pc' = "hf_post"
             /\ UNCHANGED outcome
  /\ UNCHANGED <<endpoint, HUGGINGFACE_API_KEY, inputs, attempt, last_error, reqs,
                 sleeps, hf_raised, predictions, aggVars>>

\* an attempt that treats an empty prediction list as a failure to retry
Settle_EmptyListFails(r) ==
  LET c == Classify(r)
  IN IF c.ret /\ c.preds # <<>>
     THEN /\ predictions' = c.preds
          /\ pc' = "pr_select"
          /\ UNCHANGED last_error
     ELSE /\ last_error' = IF c.ret THEN HttpError(500) ELSE c.err
          /\ pc' = "hf_backoff"
          /\ UNCHANGED predictions

\* lines 74-98 applied to the response that ends the attempt's requests
Settle(r) ==
  LET c == Classify(r)
  IN IF c.ret
     THEN /\ predictions' = c.preds
          /\ pc' = "pr_select"
          /\ UNCHANGED last_error
     ELSE /\ last_error' = c.err
          /\ pc' = "hf_backoff"
          /\ UNCHANGED predictions

\* lines 61-72: the attempt's first post, with the key when one is configured
HfPost ==
  /\ pc = "hf_post"
  /\ \E r \in Responses :
       /\ reqs' = Append(reqs, [att |-> attempt, auth |-> HUGGINGFACE_API_KEY, resp |-> r])
       /\ IF PermissionDenied(r)
          THEN pc' = "hf_repost" /\ UNCHANGED <<last_error, predictions>>
          ELSE Settle(r)
  /\ UNCHANGED <<endpoint, HUGGINGFACE_API_KEY, inputs, text, payload, attempt, sleeps,
                 hf_raised, outcome, aggVars>>

\* the re-issue counted as an attempt of its own
HfRepost_ConsumesRetry ==
  /\ pc = "hf_repost"
  /\ \E r \in Responses :
       /\ reqs' = Append(reqs, [att |-> attempt, auth |-> FALSE, resp |-> r])
       /\ Settle(r)
  /\ attempt' = attempt + 1
  /\ UNCHANGED <<endpoint, HUGGINGFACE_API_KEY, inputs, text, payload, sleeps,
                 hf_raised, outcome, aggVars>>

\* line 72: the post repeated with base_headers
HfRepost ==
  /\ pc = "hf_repost"
  /\ \E r \in Responses :
       /\ reqs' = Append(reqs, [att |-> attempt, auth |-> FALSE, resp |-> r])
       /\ Settle(r)
  /\ UNCHANGED <<endpoint, HUGGINGFACE_API_KEY, inputs, text, payload, attempt, sleeps,
                 hf_raised, outcome, aggVars>>

\* a loop that also sleeps after its final attempt
HfSleep_AfterLast ==
  /\ pc = "hf_backoff"
  /\ attempt < MaxRetries \/ Len(sleeps) = attempt
  /\ sleeps' = Append(sleeps, attempt)
  /\ IF attempt < MaxRetries
     THEN attempt' = attempt + 1 /\ pc' = "hf_post"
     ELSE UNCHANGED attempt /\ UNCHANGED pc
  /\ UNCHANGED <<endpoint, HUGGINGFACE_API_KEY, inputs, text, payload, last_error, reqs,
                 hf_raised, predictions, outcome, aggVars>>

\* lines 100-101 and the next iteration of the for loop
HfSleep ==
  /\ pc = "hf_backoff"
  /\ attempt < MaxRetries
  /\ sleeps' = Append(sleeps, attempt)
  /\ attempt' = attempt + 1
  /\ pc' = "hf_post"
  /\ UNCHANGED <<endpoint, HUGGINGFACE_API_KEY, inputs, text, payload, last_error, reqs,
                 hf_raised, predictions, outcome, aggVars>>

\* lines 103-105: the loop is over, raise; lines 131-133: predict_role
\* catches HTTPException and empties predictions
HfRaise ==
  /\ pc = "hf_backoff"
  /\ ~(attempt < MaxRetries)
  /\ LET e == IF last_error.kind = "HTTPException" THEN last_error ELSE HttpError(500)
     IN /\ hf_raised' = e
        /\ IF e.kind = "HTTPException"
           THEN predictions' = <<>> /\ pc' = "pr_select" /\ UNCHANGED outcome
           ELSE outcome' = Raised(e.kind, 500) /\ pc' = "done" /\ UNCHANGED predictions
  /\ UNCHANGED <<endpoint, HUGGINGFACE_API_KEY, inputs, text, payload, attempt, last_error,
                 reqs, sleeps, aggVars>>

\* a selection whose fallback answer depends on the last failure
PredictSelect_ByLastError ==
  /\ pc = "pr_select"
  /\ outcome' = IF predictions = <<>> /\ last_error.status = 503
                THEN Result(Str_unknown, <<>>, HeuristicScore)
                ELSE SelectOutcome(text, predictions)
  /\ pc' = "done"
  /\ UNCHANGED <<endpoint, HUGGINGFACE_API_KEY, inputs, text, payload, attempt, last_error,
                 reqs, sleeps, hf_raised, predictions, aggVars>>

\* lines 138-170
PredictSelect ==
  /\ pc = "pr_select"
  /\ outcome' = SelectOutcome(text, predictions)
  /\ pc' = "done"
  /\ UNCHANGED <<endpoint, HUGGINGFACE_API_KEY, inputs, text, payload, attempt, last_error,
                 reqs, sleeps, hf_raised, predictions, aggVars>>

\* ----------------------------------------------------- analyze_all.py steps
\* lines 27-33: the resume is processed first; an error result is answered 400
AnResume ==
  /\ endpoint = "analyze_all" /\ pc = "an_resume"
  /\ \E o \in ResumeOutcomes :
       /\ calls' = Append(calls, Call("process_resume_file", PyNone, o))
       /\ IF o.raises
          THEN /\ response' = Unhandled(o.msg)
               /\ pc' = "done"
               /\ UNCHANGED results
          ELSE IF IsResumeError(o.value)
          THEN /\ response' = Respond(400, o.value)
               /\ pc' = "done"
               /\ UNCHANGED results
          ELSE /\ results' = Put(results, "resume", o.value)
               /\ pc' = "an_github"
               /\ UNCHANGED response
  /\ UNCHANGED <<endpoint, predVars, github, leetcode, codechef, token,
                 GITHUB_TOKEN_ENV, username, token_to_use, gql>>

\* lines 36-44 (and 56-57): username, then the token to use
AnGithubUsername ==
  /\ pc = "an_github"
  /\ IF ~Truthy(github)
     THEN /\ pc' = "an_leetcode"
          /\ UNCHANGED <<results, username, token_to_use, calls>>
     ELSE \E o \in UsernameOutcomes :
            /\ calls' = Append(calls, Call("extract_username_from_input", github, o))
            /\ IF o.raises
               THEN /\ results' = Put(results, "github_error", o.msg)
                    /\ pc' = "an_leetcode"
                    /\ UNCHANGED <<username, token_to_use>>
               ELSE IF ~Truthy(o.value)
               THEN /\ results' = Put(results, "github_error", MsgNoUsername)
                    /\ pc' = "an_leetcode"
                    /\ username' = o.value
                    /\ UNCHANGED token_to_use
               ELSE /\ username' = o.value
                    /\ token_to_use' = PyOr(token, GITHUB_TOKEN_ENV)
                    /\ IF ~Truthy(token_to_use')
                       THEN /\ results' = Put(results, "github_error", MsgNoToken)
                            /\ pc' = "an_leetcode"
                       ELSE /\ pc' = "an_repos"
                            /\ UNCHANGED results
  /\ UNCHANGED <<endpoint, predVars, github, leetcode, codechef, token,
                 GITHUB_TOKEN_ENV, gql, response>>

\* lines 46-48 (and 56-57): repository and contribution counts
AnGithubRepos ==
  /\ pc = "an_repos"
  /\ \E o \in RepoCountOutcomes :
       /\ calls' = Append(calls, Call("get_github_repo_counts", token_to_use, o))
       /\ IF o.raises
          THEN /\ results' = Put(results, "github_error", o.msg)
               /\ pc' = "an_leetcode"
               /\ UNCHANGED gql
          ELSE IF GqlFailed(o.value)
          THEN /\ results' = Put(results, "github_error", o.value["error_graphql"])
               /\ pc' = "an_leetcode"
               /\ gql' = o.value
          ELSE /\ gql' = o.value
               /\ pc' = "an_pr"
               /\ UNCHANGED results
  /\ UNCHANGED <<endpoint, predVars, github, leetcode, codechef, token,
                 GITHUB_TOKEN_ENV, username, token_to_use, response>>

\* lines 50-55 (and 56-57): pull-request metrics, then the merged entry
AnGithubPr ==
  /\ pc = "an_pr"
  /\ \E o \in PrMetricsOutcomes :
       /\ calls' = Append(calls, Call("get_pr_metrics", token_to_use, o))
       /\ IF o.raises
          THEN results' = Put(results, "github_error", o.msg)
          ELSE IF PrFailed(o.value)
          THEN results' = Put(results, "github_error", o.value["error_pr_api"])
          ELSE results' = Put(results, "github",
                              [username |-> username.v,
                               github_metrics |-> Merge(gql, o.value)])
       /\ pc' = "an_leetcode"
  /\ UNCHANGED <<endpoint, predVars, github, leetcode, codechef, token,
                 GITHUB_TOKEN_ENV, username, token_to_use, gql, response>>

\* lines 60-65
AnLeetcode ==
  /\ pc = "an_leetcode"
  /\ IF ~Truthy(leetcode)
     THEN UNCHANGED <<results, calls>>
     ELSE \E o \in LeetcodeOutcomes :
            /\ calls' = Append(calls, Call("analyze_leetcode", leetcode, o))
            /\ IF o.raises
               THEN results' = Put(results, "leetcode_error", o.msg)
               ELSE results' = Put(results, "leetcode", o.value)
  /\ pc' = "an_codechef"
  /\ UNCHANGED <<endpoint, predVars, github, leetcode, codechef, token,
                 GITHUB_TOKEN_ENV, username, token_to_use, gql, response>>

\* lines 68-75: CodeChef, then the handler returns results
AnCodechef ==
  /\ pc = "an_codechef"
  /\ IF ~Truthy(codechef)
     THEN UNCHANGED <<results, calls>>
     ELSE \E o \in CodechefOutcomes :
            /\ calls' = Append(calls, Call("analyze_codechef", codechef, o))
            /\ IF o.raises
               THEN results' = Put(results, "codechef_error", o.msg)
               ELSE results' = Put(results, "codechef", o.value)
  /\ response' = Respond(200, results')
  /\ pc' = "done"
  /\ UNCHANGED <<endpoint, predVars, github, leetcode, codechef, token,
                 GITHUB_TOKEN_ENV, username, token_to_use, gql>>

Next ==
  \/ PredictStart
  \/ HfPost
  \/ HfRepost
  \/ HfSleep
  \/ HfRaise
  \/ PredictSelect
  \/ AnResume
  \/ AnGithubUsername
  \/ AnGithubRepos
  \/ AnGithubPr
  \/ AnLeetcode
  \/ AnCodechef

Spec == Init /\ [][Next]_vars

\* ------------------------------------------------------------- properties
PredictDone == endpoint = "predict_role" /\ pc = "done"
AnalyzeDone == endpoint = "analyze_all" /\ pc = "done"

\* attempts of _call_hf_api that issued a request so far
AttemptsMade == Cardinality({reqs[i].att : i \in DOMAIN reqs})

\* the response that decided attempt a: the last one received in it
LastOfAttempt(a) ==
  reqs[CHOOSE i \in DOMAIN reqs :
         reqs[i].att = a /\ \A j \in DOMAIN reqs : reqs[j].att = a => j <= i].resp

\* the failures section 4.1 calls retryable: 503, another status >= 400,
\* a transport or timeout exception
RetryableFailure(r) == r.raises \/ r.status >= 400

\* the label the keyword chain of predict_role gives each explored input
ExpectedHeuristicLabel ==
  CASE inputs = <<"r", "e", "a", "c", "t">> -> Str_technology
    [] inputs = <<" ", "R", "e", "a", "c", "t", " ", "a", "p", "i", "\n">> -> Str_technology
    [] inputs = <<"j", "a", "v", "a">> -> Str_programming
    [] inputs = <<"b", "u", "i", "l", "d">> -> <<"c", "r", "e", "a", "t", "i", "v", "i", "t", "y">>
    [] inputs = <<"g", "o", "l", "f">> -> Str_technology
    [] inputs = <<"s", "q", "l", " ", "m", "l">> -> <<"a", "n", "a", "l", "y", "s", "i", "s">>
    [] inputs = <<"m", "l", " ", "b", "u", "s", "i", "n", "e", "s", "s">> -> <<"l", "e", "a", "r", "n", "i", "n", "g">>
    [] inputs = <<"s", "t", "a", "k", "e", "h", "o", "l", "d", "e", "r", " ", "c", "y", "b", "e", "r">> -> Str_organization
    [] inputs = <<"n", "e", "t", "w", "o", "r", "k">> ->
         <<"r", "e", "s", "p", "o", "n", "s", "i", "b", "i", "l", "i", "t", "y">>
    [] inputs = LongInput -> Str_programming
    [] OTHER -> <<>>

\* predict_role answered with the local heuristic: its label, confidence 0.5
HeuristicAnswer ==
  /\ outcome.kind = "result"
  /\ outcome.confidence = 50
  /\ outcome.predicted_label = ExpectedHeuristicLabel

\* C1: for every input that is non-empty after trimming and every sequence
\* of remote outcomes, predict_role ends with a ClassificationResult and
\* raises nothing to its caller.
C1_NeverRaises ==
  (PredictDone /\ Strip(inputs) # <<>>) => outcome.kind = "result"

\* C2: when every attempt ends in a retryable failure, exactly 3 attempts
\* are made, no fourth attempt ever starts, and predict_role returns the
\* keyword-heuristic label with confidence 0.5.
C2_ThreeAttemptsThenHeuristic ==
  endpoint = "predict_role" =>
    /\ AttemptsMade <= 3
    /\ \A i \in DOMAIN reqs : reqs[i].att \in 0..2
    /\ (PredictDone /\ reqs # <<>>
        /\ \A i \in DOMAIN reqs : RetryableFailure(LastOfAttempt(reqs[i].att)))
       => /\ AttemptsMade = 3
          /\ HeuristicAnswer

\* C2 witness: three 503 answers, then the heuristic result for "react"
C2_Witness ==
  /\ PredictDone
  /\ Len(reqs) = 3
  /\ \A i \in DOMAIN reqs : ~reqs[i].resp.raises /\ reqs[i].resp.status = 503
  /\ inputs = <<"r", "e", "a", "c", "t">>
  /\ HeuristicAnswer

\* a 2xx response whose body is neither a flat list nor a nested list
Malformed(r) == ~r.raises /\ r.status < 400 /\ r.body.t # "list"

FirstOfAttempt(i) == i = 1 \/ reqs[i - 1].att # reqs[i].att
Reissue(i) == i > 1 /\ reqs[i - 1].att = reqs[i].att

\* HTTP 403 whose body carries the insufficient-permissions signature
Sig403(r) == ~r.raises /\ r.status = 403 /\ r.sig

\* what the classification rules of section 4.1 make of response r:
\* the error kept for the attempt, or "list" when predictions are returned
RuleFor(r) ==
  IF r.raises THEN "Exception"
  ELSE IF r.status = 503 THEN "HTTP 503"
  ELSE IF r.status >= 400 THEN "HTTP error"
  ELSE IF r.body.t = "list" THEN "list"
  ELSE IF r.body.t = "notjson" THEN "Exception"
  ELSE "HTTP 500"

\* how the model settled the attempt in progress
Settled ==
  IF pc = "pr_select" THEN "list"
  ELSE IF last_error.kind = "Exception" THEN "Exception"
  ELSE IF last_error.status = 503 THEN "HTTP 503"
  ELSE IF last_error.status = 500 /\ reqs[Len(reqs)].resp.status < 400 THEN "HTTP 500"
  ELSE "HTTP error"

\* C4: within an attempt a second request, without the Authorization
\* header, is issued if and only if the attempt's first response is a 403
\* carrying the insufficient-permissions signature; any other first response
\* is classified directly, and the re-issued response is classified by the
\* same rules as any other response (a second 403 signature included).
C4_ReissueIffPermissionSignature ==
  \A i \in DOMAIN reqs :
    /\ FirstOfAttempt(i) => reqs[i].auth = HUGGINGFACE_API_KEY
    /\ Reissue(i) => /\ ~reqs[i].auth
                     /\ FirstOfAttempt(i - 1)
                     /\ Sig403(reqs[i - 1].resp)
    /\ (FirstOfAttempt(i) /\ Sig403(reqs[i].resp)) =>
          IF i = Len(reqs) THEN pc = "hf_repost" ELSE Reissue(i + 1)
    /\ (i = Len(reqs) /\ ~(FirstOfAttempt(i) /\ Sig403(reqs[i].resp))) =>
          /\ pc \in {"hf_backoff", "hf_post", "pr_select", "done"}
          /\ (pc = "hf_backoff" \/ (pc = "pr_select" /\ hf_raised.kind = "none"))
             => Settled = RuleFor(reqs[i].resp)
          /\ pc = "hf_backoff" /\ last_error.kind = "HTTPException"
               /\ reqs[i].resp.status >= 400
             => last_error.status = reqs[i].resp.status

\* C4 witness: a keyed first request answered 403 with the signature, the
\* re-issue without the header answered 403 with the signature again, and
\* that answer classified as an HTTP error of the attempt
C4_Witness ==
  /\ HUGGINGFACE_API_KEY
  /\ Len(reqs) = 2
  /\ reqs[1].auth /\ Sig403(reqs[1].resp)
  /\ ~reqs[2].auth /\ reqs[2].att = 0 /\ Sig403(reqs[2].resp)
  /\ pc = "hf_backoff"
  /\ last_error = HttpError(403)

\* _call_hf_api is over without predictions: it raised
CallRaised == hf_raised.kind # "none"

\* C5: the credential-less re-issue does not consume a retry: a call makes
\* at most 3 attempts whatever the number of permission failures, an attempt
\* issues at most 2 requests, the call gives up only after its 3 attempts,
\* and a call whose every attempt hits the permission signature without
\* obtaining predictions performs 3 attempts (6 requests).
C5_ReissueConsumesNoRetry ==
  /\ AttemptsMade <= 3
  /\ \A a \in 0..3 : Cardinality({i \in DOMAIN reqs : reqs[i].att = a}) <= 2
  /\ CallRaised => AttemptsMade = 3
  /\ (CallRaised /\ \A i \in DOMAIN reqs : FirstOfAttempt(i) => Sig403(reqs[i].resp))
     => AttemptsMade = 3 /\ Len(reqs) = 6

\* C5 witness: three attempts, each answered 403 with the signature and
\* re-issued, six requests in all, and the call raised
C5_Witness ==
  /\ CallRaised
  /\ Len(reqs) = 6
  /\ \A i \in DOMAIN reqs : FirstOfAttempt(i) => Sig403(reqs[i].resp)
  /\ AttemptsMade = 3

\* keys of the JSON object analyze_all answers with
Keys == DOMAIN response.body
OptionalKeys ==
  {"github", "github_error", "leetcode", "leetcode_error", "codechef", "codechef_error"}
Sources == {"github", "leetcode", "codechef"}
ErrorKey(s) ==
  CASE s = "github" -> "github_error"
    [] s = "leetcode" -> "leetcode_error"
    [] s = "codechef" -> "codechef_error"
Identifier(s) ==
  CASE s = "github" -> github
    [] s = "leetcode" -> leetcode
    [] s = "codechef" -> codechef
AdaptersOf(s) ==
  CASE s = "github" ->
         {"extract_username_from_input", "get_github_repo_counts", "get_pr_metrics"}
    [] s = "leetcode" -> {"analyze_leetcode"}
    [] s = "codechef" -> {"analyze_codechef"}

\* an identifier is supplied when the query parameter is a non-empty string
Supplied(x) == x.t = "str" /\ x.v # ""

\* the call returned an error indicator: a dict with one of the error keys
ReturnedError(c, key) == ~c.out.raises /\ key \in DOMAIN c.out.value

\* resume processing returned an error
ResumeFailed ==
  /\ calls # <<>>
  /\ calls[1].fn = "process_resume_file"
  /\ ReturnedError(calls[1], "error")

\* C6: if resume processing returns an error, analyze_all answers 400 with
\* the resume error before any optional source is attempted: no adapter of
\* GitHub, LeetCode or CodeChef is called (username extraction included) and
\* the response has none of the six optional keys, whatever was supplied.
C6_ResumeErrorShortCircuits ==
  (endpoint = "analyze_all" /\ ResumeFailed) =>
    /\ Len(calls) = 1
    /\ pc = "done"
    /\ response.status = 400
    /\ response.body = calls[1].out.value
    /\ Keys \cap OptionalKeys = {}
    /\ results = EmptyDict

\* C6 witness: all three identifiers and a token supplied, resume error, 400
C6_Witness ==
  /\ AnalyzeDone
  /\ ResumeFailed
  /\ \A s \in Sources : Supplied(Identifier(s))
  /\ Supplied(token)
  /\ response.status = 400

\* C7: in every response after a successful resume analysis, a source whose
\* identifier was supplied has exactly one of its keys s and s_error, and a
\* source whose identifier was not supplied has neither.
C7_OneKeyPerSuppliedSource ==
  (AnalyzeDone /\ response.status = 200) =>
    /\ "resume" \in Keys
    /\ \A s \in Sources :
         IF Supplied(Identifier(s))
         THEN (s \in Keys) # (ErrorKey(s) \in Keys)
         ELSE s \notin Keys /\ ErrorKey(s) \notin Keys

\* C7 witness: GitHub supplied and failed, LeetCode given as an empty
\* string, CodeChef supplied and answered
C7_Witness ==
  /\ AnalyzeDone /\ response.status = 200
  /\ Supplied(github) /\ "github_error" \in Keys /\ "github" \notin Keys
  /\ leetcode = PyS("") /\ "leetcode" \notin Keys /\ "leetcode_error" \notin Keys
  /\ Supplied(codechef) /\ "codechef" \in Keys /\ "codechef_error" \notin Keys

\* the calls of adapter fn made in this request
CallsOf(fn) == {calls[i] : i \in {j \in DOMAIN calls : calls[j].fn = fn}}

\* C8: GitHub is all-or-nothing: when the repository/contribution sub-call
\* or the pull-request sub-call reports an error, the response has
\* github_error with that sub-call's message and no github key, so nothing
\* of the sub-call that succeeded is in the response; the github key is
\* present only when both sub-calls succeeded.
C8_GithubAllOrNothing ==
  (AnalyzeDone /\ response.status = 200) =>
    /\ \A c \in CallsOf("get_github_repo_counts") :
         /\ ReturnedError(c, "error_graphql") =>
              /\ "github" \notin Keys
              /\ "github_error" \in Keys
              /\ response.body["github_error"] = c.out.value["error_graphql"]
         /\ c.out.raises =>
              /\ "github" \notin Keys
              /\ "github_error" \in Keys
              /\ response.body["github_error"] = c.out.msg
    /\ \A c \in CallsOf("get_pr_metrics") :
         /\ ReturnedError(c, "error_pr_api") =>
              /\ "github" \notin Keys
              /\ "github_error" \in Keys
              /\ response.body["github_error"] = c.out.value["error_pr_api"]
         /\ c.out.raises =>
              /\ "github" \notin Keys
              /\ "github_error" \in Keys
              /\ response.body["github_error"] = c.out.msg
    /\ "github" \notin Keys => Keys \subseteq {"resume"} \cup (OptionalKeys \ {"github"})
    /\ "github" \in Keys =>
         /\ \E c \in CallsOf("get_github_repo_counts") :
              ~c.out.raises /\ "error_graphql" \notin DOMAIN c.out.value
         /\ \E c \in CallsOf("get_pr_metrics") :
              ~c.out.raises /\ "error_pr_api" \notin DOMAIN c.out.value
         /\ DOMAIN response.body["github"]["github_metrics"] =
              {"total_repos", "contributions", "total_prs", "merged_prs"}

\* C8 witness: the repository sub-call answered, the pull-request sub-call
\* returned error_pr_api, and the response carries only that message
C8_Witness ==
  /\ AnalyzeDone /\ response.status = 200
  /\ \E c \in CallsOf("get_github_repo_counts") :
       ~c.out.raises /\ "total_repos" \in DOMAIN c.out.value
  /\ \E c \in CallsOf("get_pr_metrics") : ReturnedError(c, "error_pr_api")
  /\ "github" \notin Keys
  /\ response.body["github_error"] = "PR search API rate limited"

\* C9: an unexpected exception raised by any source adapter is caught at
\* that source's boundary and recorded as that source's failure entry; it
\* never leaves analyze_all, and every other supplied source still
\* contributes its own key.
C9_ExceptionsNeverPropagate ==
  endpoint = "analyze_all" =>
    /\ response.exc = ""
    /\ (AnalyzeDone /\ response.status = 200) =>
         \A s \in Sources :
           /\ (\E f \in AdaptersOf(s) : \E c \in CallsOf(f) : c.out.raises)
                => ErrorKey(s) \in Keys /\ s \notin Keys
           /\ Supplied(Identifier(s)) => (s \in Keys \/ ErrorKey(s) \in Keys)

\* a failure of optional source s: an adapter of s raised or returned an
\* error indicator
SourceFailed(s) ==
  \E f \in AdaptersOf(s) : \E c \in CallsOf(f) :
    \/ c.out.raises
    \/ \E k \in {"error", "error_graphql", "error_pr_api"} : ReturnedError(c, k)

\* C10: every failure of an optional source, raised or returned as an error
\* indicator, appears as <source>_error while the request answers HTTP
\* success with the resume key present; only a resume failure answers with
\* a client-error status.
C10_OptionalFailuresAreSiblingErrors ==
  AnalyzeDone =>
    /\ \A s \in Sources :
         SourceFailed(s) =>
           /\ response.status = 200
           /\ "resume" \in Keys
           /\ ErrorKey(s) \in Keys
           /\ s \notin Keys
    /\ response.status \in 400..499 => ResumeFailed

\* the GitHub sub-calls made in this request
GithubSubCalls == CallsOf("get_github_repo_counts") \cup CallsOf("get_pr_metrics")

\* the username was parsed from the GitHub identifier
UsernameParsed ==
  \E c \in CallsOf("extract_username_from_input") : ~c.out.raises /\ Supplied(c.out.value)

\* C11 as stated: the GitHub credential is the request's token when present,
\* otherwise the process-wide default; when neither is present the response
\* records github_error with the missing-token message and no sub-call
\* (repository metrics, pull-request metrics) is invoked.
C11_MissingTokenAlwaysReported ==
  /\ \A c \in GithubSubCalls :
       c.arg = (IF Supplied(token) THEN token ELSE GITHUB_TOKEN_ENV)
  /\ (AnalyzeDone /\ response.status = 200 /\ Supplied(github)
      /\ ~Supplied(token) /\ ~Supplied(GITHUB_TOKEN_ENV))
     => /\ "github_error" \in Keys
        /\ response.body["github_error"] = MsgNoToken
        /\ GithubSubCalls = {}

\* C11 amended: the same, the missing-token message being recorded when
\* neither token is present and the username was parsed from the
\* identifier; when the username cannot be obtained github_error carries
\* that failure instead, and in both cases no sub-call is invoked.
C11_TokenPrecedence ==
  /\ \A c \in GithubSubCalls :
       /\ Supplied(c.arg)
       /\ c.arg = (IF Supplied(token) THEN token ELSE GITHUB_TOKEN_ENV)
  /\ (endpoint = "analyze_all" /\ ~Supplied(token) /\ ~Supplied(GITHUB_TOKEN_ENV))
     => GithubSubCalls = {}
  /\ (AnalyzeDone /\ response.status = 200 /\ Supplied(github)
      /\ ~Supplied(token) /\ ~Supplied(GITHUB_TOKEN_ENV))
     => /\ "github_error" \in Keys
        /\ "github" \notin Keys
        /\ UsernameParsed => response.body["github_error"] = MsgNoToken
  /\ (AnalyzeDone /\ response.status = 200 /\ UsernameParsed
      /\ (Supplied(token) \/ Supplied(GITHUB_TOKEN_ENV)))
     => CallsOf("get_github_repo_counts") # {}

\* C11 witness: username parsed, neither token present, the missing-token
\* message recorded and no sub-call made
C11_Witness ==
  /\ AnalyzeDone /\ response.status = 200
  /\ Supplied(github) /\ UsernameParsed
  /\ ~Supplied(token) /\ ~Supplied(GITHUB_TOKEN_ENV)
  /\ response.body["github_error"] = MsgNoToken
  /\ GithubSubCalls = {}

\* _call_hf_api returned a list (it did not raise)
CallReturned == pc \in {"pr_select", "done"} /\ reqs # <<>> /\ hf_raised.kind = "none"

\* the list of records a 2xx list body stands for: a nested list is
\* unwrapped to its first inner list
RecordsOf(body) ==
  IF body.items # <<>> /\ body.items[1].t = "list" THEN body.items[1].items
  ELSE body.items

\* a label/score record
WellFormed(p) ==
  /\ p.t = "dict"
  /\ "label" \in DOMAIN p /\ p["label"].t = "str"
  /\ "score" \in DOMAIN p /\ p["score"].t = "num"

\* the answer is the first record of maximum score among the records of
\* the final response
TopScoreRule ==
  (PredictDone /\ CallReturned) =>
    LET recs == RecordsOf(reqs[Len(reqs)].resp.body)
    IN (recs # <<>> /\ \A i \in DOMAIN recs : WellFormed(recs[i])) =>
         /\ outcome.kind = "result"
         /\ \E i \in DOMAIN recs :
              /\ \A j \in DOMAIN recs : recs[j]["score"].v <= recs[i]["score"].v
              /\ \A j \in 1..(i - 1) : recs[j]["score"].v < recs[i]["score"].v
              /\ outcome.predicted_label = recs[i]["label"].v
              /\ outcome.confidence = recs[i]["score"].v

\* C12 witness: two records tied at 0.5, the first (technology) returned
C12_Witness ==
  /\ PredictDone /\ CallReturned
  /\ reqs[Len(reqs)].resp.body =
       JList(<<JRec(Str_technology, 50), JRec(Str_programming, 50)>>)
  /\ outcome.kind = "result"
  /\ outcome.predicted_label = Str_technology
  /\ outcome.confidence = 50

\* the example of section 8, also with a second inner list after it: the
\* first inner list alone is used
NestedExampleRule ==
  (PredictDone /\ CallReturned /\ reqs[Len(reqs)].resp.body.items # <<>>
   /\ reqs[Len(reqs)].resp.body.items[1] =
        JList(<<JRec(Str_organization, 90), JRec(Str_technology, 10)>>))
  => /\ outcome.kind = "result"
     /\ outcome.predicted_label = Str_organization
     /\ outcome.confidence = 90

\* C12: when the remote call succeeds with a non-empty list of label/score
\* records, predict_role returns the label of the record with the maximum
\* score, the first such record in the returned order, with that record's
\* score as confidence; a nested list is unwrapped to its first inner list.
C12_TopScoreFirstOccurrence == TopScoreRule /\ NestedExampleRule

\* predict_role took the fallback path: the call is over and left no
\* prediction
Fallback == PredictDone /\ reqs # <<>> /\ predictions = <<>>

\* C13: on the fallback path the label is that of the first keyword group
\* matching the lowercased text, in the order technology, programming,
\* creativity, analysis, learning, organization, responsibility; a text
\* matching several groups gets the first of them, a text matching none
\* gets "technology", and the confidence is 0.5.
C13_FirstMatchingGroupWins ==
  Fallback => HeuristicAnswer

\* C13 witness: "sql ml" matches the analysis and the learning group and is
\* answered analysis
C13_Witness ==
  /\ Fallback
  /\ inputs = <<"s", "q", "l", " ", "m", "l">>
  /\ outcome.kind = "result"
  /\ outcome.predicted_label = <<"a", "n", "a", "l", "y", "s", "i", "s">>
  /\ outcome.confidence = 50

\* role r passes the fresher/intern filter
Qualifies(r) == Contains(r, Str_Fresher) \/ Contains(r, Str_Intern)

\* the labels the heuristic can produce: the seven group labels (the
\* default is the first of them)
HeuristicLabels == {HeuristicGroups[g].label : g \in DOMAIN HeuristicGroups}

\* C14: whenever predict_role falls back to the local heuristic the returned
\* recommended_roles is non-empty: every label the heuristic can produce has
\* a ROLE_MAP entry with at least one role passing the fresher/intern filter.
C14_FallbackRolesNonEmpty ==
  /\ Fallback =>
       /\ outcome.kind = "result"
       /\ outcome.predicted_label \in HeuristicLabels
       /\ outcome.recommended_roles # <<>>
       /\ \A i \in DOMAIN outcome.recommended_roles :
            Qualifies(outcome.recommended_roles[i])
  /\ \A l \in HeuristicLabels :
       \E e \in DOMAIN ROLE_MAP :
         /\ ROLE_MAP[e].key = l
         /\ \E i \in DOMAIN ROLE_MAP[e].roles : Qualifies(ROLE_MAP[e].roles[i])

\* C14 witness: "ml business" falls back to learning, whose only role is
\* the intern one
C14_Witness ==
  /\ Fallback
  /\ inputs = <<"m", "l", " ", "b", "u", "s", "i", "n", "e", "s", "s">>
  /\ outcome.kind = "result"
  /\ Len(outcome.recommended_roles) = 1
  /\ Contains(outcome.recommended_roles[1], Str_Intern)

\* labels the mapper is applied to: the keys as written, in other case,
\* with surrounding whitespace, and strings that are no key
LabelSamples ==
  {ROLE_MAP[e].key : e \in DOMAIN ROLE_MAP}
    \cup {<<"O", "r", "g", "a", "n", "i", "z", "a", "t", "i", "o", "n", " ">>,
          <<" ", "T", "E", "C", "H", "N", "O", "L", "O", "G", "Y", "\n">>,
          <<"L", "e", "a", "r", "n", "i", "n", "g">>,
          <<"j", "o", "y">>, <<"t", "e", "c", "h", "n", "o">>,
          <<"a", "n", "a", " ", "l", "y", "s", "i", "s">>,
          Str_unknown, <<"N", "o", "n", "e">>, <<>>, <<" ">>}

\* the table entries whose key equals the label once lowercased and stripped
EntriesFor(label) ==
  LET key == Strip(Lower(label))
  IN {e \in DOMAIN ROLE_MAP : ROLE_MAP[e].key = key}

\* the role list the table prescribes for a label
ExpectedRoles(label) ==
  LET es == EntriesFor(label)
  IN IF es = {} THEN <<>> ELSE ROLE_MAP[CHOOSE e \in es : TRUE].roles

\* sequence rs restricted to its qualifying roles, order kept
RECURSIVE Qualifying(_)
Qualifying(rs) ==
  IF rs = <<>> THEN <<>>
  ELSE (IF Qualifies(Head(rs)) THEN <<Head(rs)>> ELSE <<>>) \o Qualifying(Tail(rs))

\* C15: _map_label_to_roles returns exactly the table entry's ordered role
\* list for a label equal to a ROLE_MAP key after lowercasing and stripping,
\* and the empty sequence for any other label; predict_role keeps only the
\* Fresher/Intern roles, and an unmapped label gives an empty
\* recommended_roles in a normal result.
C15_MapperAndFilter ==
  /\ pc = "pr_start" =>
       /\ \A l \in LabelSamples : _map_label_to_roles(l) = ExpectedRoles(l)
       /\ Cardinality({l \in LabelSamples : ExpectedRoles(l) # <<>>}) = Len(ROLE_MAP) + 3
  /\ PredictDone /\ outcome.kind = "result" =>
       LET expected == ExpectedRoles(outcome.predicted_label)
       IN /\ outcome.recommended_roles = Qualifying(expected)
          /\ expected = <<>> => outcome.recommended_roles = <<>>

\* C15 witness: the remote label "Organization " (capital, trailing blank)
\* is answered with the organization entry's role
C15_Witness ==
  /\ PredictDone /\ outcome.kind = "result"
  /\ outcome.predicted_label = <<"O", "r", "g", "a", "n", "i", "z", "a", "t", "i", "o", "n", " ">>
  /\ outcome.recommended_roles =
       <<<<"B", "u", "s", "i", "n", "e", "s", "s", " ", "A", "n", "a", "l", "y", "s", "t", " ", "-", " ", "F", "r", "e", "s", "h", "e", "r">>>>

\* an unmapped remote label answered normally with no roles
UnmappedLabelAnswered ==
  /\ PredictDone /\ outcome.kind = "result"
  /\ outcome.predicted_label = Str_joy
  /\ outcome.recommended_roles = <<>>

\* the input holds nothing but whitespace
BlankInput == \A j \in DOMAIN inputs : IsSpace(inputs[j])

\* p is the input without its surrounding whitespace, cut after n characters
TrimmedAndCut(p, n) ==
  \E k \in DOMAIN inputs :
    /\ \A j \in 1..(k - 1) : IsSpace(inputs[j])
    /\ ~IsSpace(inputs[k])
    /\ k + Len(p) - 1 <= Len(inputs)
    /\ p = SubSeq(inputs, k, k + Len(p) - 1)
    /\ \/ Len(p) = n
       \/ /\ Len(p) < n
          /\ ~IsSpace(p[Len(p)])
          /\ \A j \in (k + Len(p))..Len(inputs) : IsSpace(inputs[j])

\* C16: no request is sent with text that is empty after trimming or longer
\* than 2000 characters: an input empty after trimming ends in a 400 error
\* with no request issued, and a longer input is posted cut to its first
\* 2000 characters from the first request on.
C16_PayloadTrimmedAndBounded ==
  /\ BlankInput => reqs = <<>>
  /\ PredictDone /\ BlankInput => outcome = Raised("HTTPException", 400)
  /\ reqs # <<>> =>
       /\ payload.inputs # <<>>
       /\ Len(payload.inputs) <= 2000
       /\ TrimmedAndCut(payload.inputs, 2000)

\* C16 witness: the long input was posted as exactly 2000 characters, the
\* last one being the blank before "vue"
C16_Witness ==
  /\ PredictDone /\ inputs = LongInput
  /\ Len(Strip(inputs)) > 2000
  /\ Len(reqs) = 3
  /\ Len(payload.inputs) = 2000
  /\ payload.inputs[1] = "p" /\ payload.inputs[2000] = " "

\* a blank input rejected with 400 before any request
BlankInputRejected ==
  /\ PredictDone /\ inputs = <<" ", "\n">>
  /\ outcome = Raised("HTTPException", 400) /\ reqs = <<>>

\* C17: the confidence of every result predict_role returns lies in [0,1],
\* whatever the remote response (records with a missing or out-of-range
\* score included); it is 0.5 on the fallback path.
C17_ConfidenceInUnitInterval ==
  PredictDone /\ outcome.kind = "result" =>
    /\ outcome.confidence >= 0 /\ outcome.confidence <= 100
    /\ predictions = <<>> => outcome.confidence = 50

\* the records of the response that ended the call, none when it failed
FinalRecords ==
  LET last == reqs[Len(reqs)].resp
  IN IF RuleFor(last) = "list" THEN RecordsOf(last.body) ELSE <<>>

\* the answer as a function of the input text and the responses received,
\* and of nothing else
DeterminedOutcome ==
  IF BlankInput THEN Raised("HTTPException", 400)
  ELSE IF FinalRecords # <<>> THEN SelectOutcome(<<>>, FinalRecords)
  ELSE Result(ExpectedHeuristicLabel, Qualifying(ExpectedRoles(ExpectedHeuristicLabel)), 50)

\* C18: predict_role is deterministic: its label, roles and confidence are a
\* function of the input text and the sequence of remote outcomes, and on
\* the fallback path of the input text alone, whichever failures occurred
\* and however many attempts were made.
C18_OutcomeIsAFunctionOfInputs ==
  PredictDone => outcome = DeterminedOutcome

\* C18 witness: a fallback answer after a 503, a transport error and a
\* re-issued permission failure, equal to the one the text alone gives
C18_Witness ==
  /\ Fallback /\ HUGGINGFACE_API_KEY
  /\ Len(reqs) = 4
  /\ \E i \in DOMAIN reqs : ~reqs[i].resp.raises /\ reqs[i].resp.status = 503
  /\ \E i \in DOMAIN reqs : reqs[i].resp.raises
  /\ \E i \in DOMAIN reqs : Reissue(i)
  /\ inputs = <<"j", "a", "v", "a">>
  /\ outcome.kind = "result" /\ outcome.predicted_label = Str_programming

\* C19: in one call of _call_hf_api the request is re-sent without the
\* Authorization header at most once: after one credential-less re-issue no
\* later attempt of the call makes another.
C19_AtMostOneReissue ==
  Cardinality({i \in DOMAIN reqs : Reissue(i)}) <= 1

\* attempt a ended in failure: its last response is no list of predictions
AttemptFailed(a) ==
  /\ \E i \in DOMAIN reqs : reqs[i].att = a
  /\ RuleFor(LastOfAttempt(a)) # "list"

\* C20: the delay of _call_hf_api occurs only between attempts: after each
\* failed attempt but the last (at most 2 per call), never after a
\* successful attempt, never after the final attempt before the raise.
C20_DelayOnlyBetweenAttempts ==
  endpoint = "predict_role" =>
    /\ Len(sleeps) <= 2
    /\ \A k \in DOMAIN sleeps :
         /\ sleeps[k] = k - 1
         /\ sleeps[k] < 2
         /\ AttemptFailed(sleeps[k])
    /\ Len(sleeps) = IF pc = "hf_post" THEN AttemptsMade
                     ELSE IF reqs = <<>> THEN 0 ELSE AttemptsMade - 1
    /\ \A a \in 0..2 :
         AttemptFailed(a) /\ (\E i \in DOMAIN reqs : reqs[i].att > a)
           => \E k \in DOMAIN sleeps : sleeps[k] = a
    /\ hf_raised.kind # "none" => sleeps = <<0, 1>> /\ AttemptsMade = 3

\* C20 witness: three failed attempts, two delays, then the raise
C20_Witness ==
  /\ endpoint = "predict_role" /\ hf_raised.kind # "none"
  /\ AttemptsMade = 3 /\ sleeps = <<0, 1>>
  /\ AttemptFailed(2)

\* a 2xx response whose body is [] or a list starting with []
EmptyPredictions(r) ==
  /\ ~r.raises /\ r.status < 400 /\ r.body.t = "list"
  /\ \/ r.body.items = <<>>
     \/ r.body.items[1].t = "list" /\ r.body.items[1].items = <<>>

\* C21: a 2xx response whose body is an empty list, or a nested list whose
\* first inner list is empty, ends _call_hf_api at once with an empty
\* prediction list (no further attempt, no delay), and predict_role then
\* answers with the keyword-heuristic label and confidence 0.5.
C21_EmptyListEndsCallThenHeuristic ==
  \A i \in DOMAIN reqs :
    EmptyPredictions(reqs[i].resp) =>
      /\ i = Len(reqs)
      /\ pc \in {"pr_select", "done"}
      /\ hf_raised.kind = "none"
      /\ predictions = <<>>
      /\ Len(sleeps) = reqs[i].att
      /\ \A k \in DOMAIN sleeps : sleeps[k] < reqs[i].att
      /\ pc = "done" => HeuristicAnswer

\* C21 witness: the nested body [[]] received in the first attempt, answered
\* with the heuristic label of "sql ml"
C21_Witness ==
  /\ PredictDone /\ Len(reqs) = 1
  /\ reqs[1].resp = Http(200, FALSE, JList(<<JList(<<>>)>>))
  /\ sleeps = <<>>
  /\ inputs = <<"s", "q", "l", " ", "m", "l">>
  /\ outcome.kind = "result" /\ outcome.confidence = 50
  /\ outcome.predicted_label = <<"a", "n", "a", "l", "y", "s", "i", "s">>

\* the flat body [] received after a failed attempt and one delay
EmptyFlatListAfterRetry ==
  /\ PredictDone /\ Len(reqs) = 2 /\ reqs[2].att = 1
  /\ reqs[2].resp = Http(200, FALSE, JList(<<>>))
  /\ sleeps = <<0>> /\ HeuristicAnswer

\* positions in the call log of the calls of adapter fn
At(fn) == {i \in DOMAIN calls : calls[i].fn = fn}

\* the username extraction returned nothing usable
UsernameNotParsed ==
  \E c \in CallsOf("extract_username_from_input") : ~c.out.raises /\ ~Supplied(c.out.value)

\* C22: within the GitHub source the steps are strictly ordered and each
\* gates the next: the pull-request sub-call is invoked only after the
\* repository/contribution sub-call returned without an error, and neither
\* sub-call is invoked when the username cannot be parsed from the
\* identifier; github_error then reports the parse failure, even if the
\* token is missing too.
C22_GithubStepsGateEachOther ==
  /\ Cardinality(At("extract_username_from_input")) <= 1
  /\ Cardinality(At("get_github_repo_counts")) <= 1
  /\ Cardinality(At("get_pr_metrics")) <= 1
  /\ \A i \in At("get_pr_metrics") :
       /\ i > 1
       /\ calls[i - 1].fn = "get_github_repo_counts"
       /\ ~calls[i - 1].out.raises
       /\ "error_graphql" \notin DOMAIN calls[i - 1].out.value
       /\ calls[i].arg = calls[i - 1].arg
  /\ \A i \in At("get_github_repo_counts") :
       /\ i > 1
       /\ calls[i - 1].fn = "extract_username_from_input"
       /\ ~calls[i - 1].out.raises
       /\ Supplied(calls[i - 1].out.value)
  /\ ~UsernameParsed => GithubSubCalls = {}
  /\ (AnalyzeDone /\ response.status = 200 /\ UsernameNotParsed)
     => /\ "github_error" \in Keys
        /\ "github" \notin Keys
        /\ response.body["github_error"] = MsgNoUsername

\* C22 witness: the username is not parsed and no token is configured; the
\* parse failure is reported and no sub-call is made
C22_Witness ==
  /\ AnalyzeDone /\ response.status = 200
  /\ UsernameNotParsed
  /\ ~Supplied(token) /\ ~Supplied(GITHUB_TOKEN_ENV)
  /\ response.body["github_error"] = MsgNoUsername
  /\ GithubSubCalls = {}

\* the three GitHub steps made in order, the last two with the same token
GithubStepsInOrder ==
  /\ AnalyzeDone
  /\ \E i \in At("get_pr_metrics") :
       /\ calls[i - 1].fn = "get_github_repo_counts"
       /\ calls[i - 2].fn = "extract_username_from_input"

\* the repository sub-call failed and the pull-request sub-call was not made
RepoErrorStopsGithub ==
  /\ AnalyzeDone
  /\ \E c \in CallsOf("get_github_repo_counts") : ReturnedError(c, "error_graphql")
  /\ At("get_pr_metrics") = {}
====
